---- MODULE Spec2Model ----
(***************************************************************************)
(* Model of app/crud/vacancy.py: the Vacancy data-access layer.            *)
(*                                                                         *)
(* The committed table is `store`; every caller-supplied AsyncSession is   *)
(* a unit of work holding the objects added but not yet flushed (pending)  *)
(* and the attribute changes made with setattr but not yet flushed         *)
(* (dirty).  session.commit() flushes both and makes them visible in the   *)
(* committed table; a failing commit rolls the unit of work back.          *)
(*                                                                         *)
(* Python values are written as strings: "None" is None, "0" and "1" are   *)
(* the integers 0 and 1, "a" and "b" are titles.  A str argument of        *)
(* list_vacancies is a sequence of one-character strings.                  *)
(***************************************************************************)
EXTENDS Integers, Sequences, FiniteSets, TLC

VARIABLES store, nextId, uniqueEnforced, sess, last,
          pc, batch, existing, acc,
          table

vars == <<store, nextId, uniqueEnforced, sess, last, pc, batch, existing, acc, table>>

-----------------------------------------------------------------------------
(* Bounds of the model *)

MaxRows == 2
MaxId == 3
MaxBatch == 2
MaxStrLen == 2

-----------------------------------------------------------------------------
(* Values *)

None == "None"
ExtIds == {"0", "1"}
Titles == {"a", "b"}
Fields == {"external_id", "title"}
Sessions == {1, 2}

\* Python truthiness of an external_id value: None and 0 are falsy.
Truthy(v) == v \notin {None, "0"}

\* dict.get(key): the value, or None when the key is missing.
py_get(p, k) == IF k \in DOMAIN p THEN p[k] ELSE None

\* The raw mappings upsert_external_vacancies receives from the external API.
UpsertPayloads ==
    {[external_id |-> e, title |-> "b"] : e \in ExtIds \cup {None}}
        \cup {[title |-> "a"]}

\* VacancyCreate.model_dump(): every field of the schema.
CreatePayloads == [external_id : ExtIds \cup {None}, title : Titles]

\* A VacancyUpdate as the caller built it: the fields the caller set, and
\* their values.
UpdatePayloads ==
    UNION {[S -> ExtIds \cup Titles \cup {None}] : S \in SUBSET Fields}

UpdateData ==
    {d \in UpdatePayloads :
        /\ "external_id" \in DOMAIN d => d["external_id"] \in ExtIds
        /\ "title" \in DOMAIN d => d["title"] \in Titles}

\* The value model_dump() reports for a field the caller did not set.
FieldDefault == None

\* data.model_dump() of a VacancyUpdate: called without exclude_unset, it
\* yields every field of the schema, the unset ones with their default.
model_dump(data) ==
    [f \in Fields |-> IF f \in DOMAIN data THEN data[f] ELSE FieldDefault]

\* Vacancy(**payload): the attributes of a new, not yet flushed instance.
Vacancy(payload) == [f \in Fields |-> py_get(payload, f)]

-----------------------------------------------------------------------------
(* The session (unit of work) *)

CleanSession == [pending |-> <<>>, dirty |-> <<>>]

\* Number of writes a session holds that no commit has flushed yet.
Staged(ss) == Len(ss.pending) + Cardinality(DOMAIN ss.dirty)

\* setattr(vacancy, field, value) for every item of `values` on the instance
\* with primary key id.
SetAttrs(ss, id, values) ==
    LET old == IF id \in DOMAIN ss.dirty THEN ss.dirty[id] ELSE <<>>
    IN [ss EXCEPT !.dirty =
            [i \in DOMAIN ss.dirty \cup {id} |->
                IF i = id THEN values @@ old ELSE ss.dirty[i]]]

\* session.add(instance)
Add(ss, attrs) == [ss EXCEPT !.pending = Append(ss.pending, attrs)]

\* The instance of row r as the session holds it: the loaded row with the
\* attribute changes the session has not flushed yet.
View(ss, r) ==
    IF r.id \in DOMAIN ss.dirty
    THEN [f \in DOMAIN r |->
            IF f \in DOMAIN ss.dirty[r.id] THEN ss.dirty[r.id][f] ELSE r[f]]
    ELSE r

Ids(rows) == {r.id : r \in rows}

RowOf(rows, id) == CHOOSE r \in rows : r.id = id

\* Every non-null external_id identifies at most one row.
UniqueExt(rows) ==
    \A r1, r2 \in rows :
        (r1.external_id = r2.external_id /\ r1.external_id # None) => r1 = r2

\* The rows after flushing the session: dirty attributes written to their
\* rows, rows in `deleted` removed, pending instances inserted with the next
\* primary keys.
Flushed(rows, nid, ss, deleted) ==
    {View(ss, r) : r \in {x \in rows : x.id \notin deleted}}
        \cup {[id |-> nid + i - 1,
               external_id |-> ss.pending[i]["external_id"],
               title |-> ss.pending[i]["title"]] : i \in 1..Len(ss.pending)}

\* await session.commit(): flush and commit.  The commit fails when the
\* connection fails, when a changed row no longer exists, or when the store
\* enforces uniqueness of external_id and the flush would break it; a failed
\* commit rolls back, so nothing of the unit of work reaches the table.
Commit(rows, nid, ss, deleted, enforce, connFail) ==
    LET after == Flushed(rows, nid, ss, deleted)
        bad == \/ connFail
               \/ ~(DOMAIN ss.dirty \subseteq Ids(rows))
               \/ enforce /\ ~UniqueExt(after)
    IN IF bad
       THEN [ok |-> FALSE, rows |-> rows, nextId |-> nid, first |-> nid]
       ELSE [ok |-> TRUE, rows |-> after, nextId |-> nid + Len(ss.pending),
             first |-> nid]

\* Room left in the bounded model for the rows a session would insert.
Fits(rows, nid, ss, extra) ==
    /\ Cardinality(rows) + Len(ss.pending) + extra <= MaxRows
    /\ nid + Len(ss.pending) + extra <= MaxId + 1

-----------------------------------------------------------------------------
(* Queries *)

\* result.scalar_one_or_none(): the row, None, or MultipleResultsFound.
scalar_one_or_none(ss, rows) ==
    IF rows = {} THEN [kind |-> "none"]
    ELSE IF Cardinality(rows) = 1
         THEN [kind |-> "row", row |-> View(ss, CHOOSE r \in rows : TRUE)]
         ELSE [kind |-> "MultipleResultsFound"]

get_vacancy(ss, rows, vacancy_id) ==
    scalar_one_or_none(ss, {r \in rows : r.id = vacancy_id})

get_vacancy_by_external_id(ss, rows, external_id) ==
    scalar_one_or_none(ss, {r \in rows : r.external_id = external_id})

-----------------------------------------------------------------------------
(* upsert_external_vacancies, step by step *)

\* An Iterable[dict]: a list can be traversed again and again, a generator
\* (oneShot) yields its items to the first traversal only.
Iterables ==
    {[items |-> it, oneShot |-> o] :
        it \in UNION {[1..n -> UpsertPayloads] : n \in 0..MaxBatch},
        o \in BOOLEAN}

Traverse(payloads, pass) ==
    IF payloads.oneShot /\ pass > 1 THEN <<>> ELSE payloads.items

\* [p["external_id"] for p in payloads if p.get("external_id")]
ExternalIds(payloads) ==
    LET sel == SelectSeq(Traverse(payloads, 1),
                         LAMBDA p : Truthy(py_get(p, "external_id")))
    IN [i \in 1..Len(sel) |-> sel[i]["external_id"]]

Range(s) == {s[i] : i \in DOMAIN s}

\* {v.external_id: v for v in result.scalars().all()} for the committed rows
\* whose external_id is IN external_ids (the session flushes at its commit).
\* The query has no ORDER BY, so when several rows share a key any of them
\* can be the one the dict keeps.
ExistingVacancies(ss, rows, external_ids) ==
    IF external_ids = <<>> THEN {<<>>}
    ELSE LET found == {View(ss, r) :
                         r \in {x \in rows : x.external_id \in Range(external_ids)}}
             keys == {v.external_id : v \in found}
         IN {ex \in [keys -> Ids(found)] :
                \A k \in keys : \E v \in found : v.id = ex[k] /\ v.external_id = k}

StartLoop(ss) ==
    [sess |-> ss, created |-> 0, updated |-> 0, err |-> "none"]

\* The loop body with the session.add of the else branch left out.
LoopBody_NoAdd(st, ex, payload) ==
    IF st.err # "none" THEN st
    ELSE IF "external_id" \notin DOMAIN payload
         THEN [st EXCEPT !.err = "KeyError"]
         ELSE IF payload["external_id"] \in DOMAIN ex
              THEN [st EXCEPT !.sess = SetAttrs(st.sess, ex[payload["external_id"]], payload),
                              !.updated = st.updated + 1]
              ELSE [st EXCEPT !.created = st.created + 1]

\* The body of `for payload in payloads` for one payload.
LoopBody(st, ex, payload) ==
    IF st.err # "none" THEN st
    ELSE IF "external_id" \notin DOMAIN payload
         THEN [st EXCEPT !.err = "KeyError"]
         ELSE IF payload["external_id"] \in DOMAIN ex
              THEN [st EXCEPT !.sess = SetAttrs(st.sess, ex[payload["external_id"]], payload),
                              !.updated = st.updated + 1]
              ELSE [st EXCEPT !.sess = Add(st.sess, Vacancy(payload)),
                              !.created = st.created + 1]

RECURSIVE UpsertLoop(_, _, _)
UpsertLoop(st, ex, items) ==
    IF items = <<>> THEN st
    ELSE UpsertLoop(LoopBody(st, ex, Head(items)), ex, Tail(items))

-----------------------------------------------------------------------------
(* The repository's operations, each a whole call on session s.            *)
(* `last` records the call just made: its arguments, what the table and    *)
(* the session held when it began, and what it returned or raised.         *)

\* The record of a call whose commit raised.
Raised(op, s) == [op |-> op, s |-> s, ok |-> FALSE, err |-> "commit"]

RaceIdle ==
    /\ pc = [s \in Sessions |-> "idle"]
    /\ UNCHANGED <<pc, batch, existing, acc, table>>

Get(s, vacancy_id) ==
    /\ RaceIdle
    /\ last' = [op |-> "get", s |-> s, id |-> vacancy_id,
                result |-> get_vacancy(sess[s], store, vacancy_id)]
    /\ UNCHANGED <<store, nextId, uniqueEnforced, sess>>

GetByExternalId(s, external_id) ==
    /\ RaceIdle
    /\ last' = [op |-> "get_by_external_id", s |-> s, external_id |-> external_id,
                result |-> get_vacancy_by_external_id(sess[s], store, external_id)]
    /\ UNCHANGED <<store, nextId, uniqueEnforced, sess>>

\* create_vacancy: add, commit, refresh.
Create(s, data, connFail) ==
    /\ RaceIdle
    /\ Fits(store, nextId, sess[s], 1)
    /\ LET ss == Add(sess[s], Vacancy(data))
           c == Commit(store, nextId, ss, {}, uniqueEnforced, connFail)
           newId == nextId + Len(ss.pending) - 1
       IN /\ store' = c.rows
          /\ nextId' = c.nextId
          /\ sess' = [sess EXCEPT ![s] = CleanSession]
          /\ last' = IF c.ok
                      THEN [op |-> "create", s |-> s, ok |-> TRUE, data |-> data,
                            before |-> store, staged |-> Staged(sess[s]),
                            result |-> RowOf(c.rows, newId)]
                      ELSE Raised("create", s)
    /\ UNCHANGED uniqueEnforced

\* update_vacancy: setattr for every item of model_dump(), commit, refresh.
\* `vacancy` is an instance the session loaded, named by its primary key.
Update(s, vacancy, data, connFail) ==
    /\ RaceIdle
    /\ vacancy \in Ids(store)
    /\ Fits(store, nextId, sess[s], 0)
    /\ LET ss == SetAttrs(sess[s], vacancy, model_dump(data))
           c == Commit(store, nextId, ss, {}, uniqueEnforced, connFail)
       IN /\ store' = c.rows
          /\ nextId' = c.nextId
          /\ sess' = [sess EXCEPT ![s] = CleanSession]
          /\ last' = IF c.ok
                      THEN [op |-> "update", s |-> s, ok |-> TRUE, data |-> data,
                            before |-> store, staged |-> Staged(sess[s]),
                            old |-> View(sess[s], RowOf(store, vacancy)),
                            result |-> RowOf(c.rows, vacancy)]
                      ELSE Raised("update", s)
    /\ UNCHANGED uniqueEnforced

\* delete_vacancy: delete, commit.
Delete(s, vacancy, connFail) ==
    /\ RaceIdle
    /\ vacancy \in Ids(store)
    /\ Fits(store, nextId, sess[s], 0)
    /\ LET c == Commit(store, nextId, sess[s], {vacancy}, uniqueEnforced, connFail)
       IN /\ store' = c.rows
          /\ nextId' = c.nextId
          /\ sess' = [sess EXCEPT ![s] = CleanSession]
          /\ last' = IF c.ok
                      THEN [op |-> "delete", s |-> s, ok |-> TRUE, id |-> vacancy,
                            before |-> store, staged |-> Staged(sess[s])]
                      ELSE Raised("delete", s)
    /\ UNCHANGED uniqueEnforced

\* upsert_external_vacancies as one call: the comprehension over payloads,
\* the existence query, the loop over payloads, the commit.  An exception
\* raised inside the loop leaves the function before the commit, with the
\* writes made so far still held by the caller's session.
Upsert(s, payloads, connFail) ==
    /\ RaceIdle
    /\ \E ex \in ExistingVacancies(sess[s], store, ExternalIds(payloads)) :
        LET st == UpsertLoop(StartLoop(sess[s]), ex, Traverse(payloads, 2))
            c == Commit(store, nextId, st.sess, {}, uniqueEnforced, connFail)
            rec == [op |-> "upsert", s |-> s, payloads |-> payloads,
                    before |-> store, staged |-> Staged(sess[s]),
                    existing |-> ex,
                    created |-> st.created, updated |-> st.updated]
        IN /\ Fits(store, nextId, st.sess, 0)
           /\ IF st.err # "none"
              THEN /\ sess' = [sess EXCEPT ![s] = st.sess]
                   /\ last' = rec @@ [ok |-> FALSE, err |-> st.err]
                   /\ UNCHANGED <<store, nextId>>
              ELSE /\ store' = c.rows
                   /\ nextId' = c.nextId
                   /\ sess' = [sess EXCEPT ![s] = CleanSession]
                   /\ last' = IF c.ok THEN rec @@ [ok |-> TRUE, err |-> "none"]
                                     ELSE Raised("upsert", s)
    /\ UNCHANGED uniqueEnforced

\* The sequential operations are all made on one session.
MainSessions == {1}

Init ==
    /\ store = {}
    /\ nextId = 1
    /\ uniqueEnforced \in BOOLEAN
    /\ sess = [s \in Sessions |-> CleanSession]
    /\ last = [op |-> "init"]
    /\ pc = [s \in Sessions |-> "idle"]
    /\ batch = [s \in Sessions |-> [items |-> <<>>, oneShot |-> FALSE]]
    /\ existing = [s \in Sessions |-> <<>>]
    /\ acc = [s \in Sessions |-> StartLoop(CleanSession)]
    /\ table = {}

Next ==
    \E s \in MainSessions :
        \/ \E id \in 1..MaxId : Get(s, id)
        \/ \E e \in ExtIds : GetByExternalId(s, e)
        \/ \E d \in CreatePayloads, f \in BOOLEAN : Create(s, d, f)
        \/ \E id \in 1..MaxId, d \in UpdateData, f \in BOOLEAN : Update(s, id, d, f)
        \/ \E id \in 1..MaxId, f \in BOOLEAN : Delete(s, id, f)
        \/ \E p \in Iterables, f \in BOOLEAN : Upsert(s, p, f)

Spec == Init /\ [][Next]_vars

-----------------------------------------------------------------------------
(* Two upsert_external_vacancies calls running concurrently, each on its   *)
(* own session.  A coroutine gives up control only at an await: at the     *)
(* existence query and at the commit.  So a call is three steps: the       *)
(* comprehension and the query; the loop over the payloads; the commit.    *)

\* The batches of the racing calls: lists of payloads carrying an external_id.
RaceBatches ==
    {[items |-> it, oneShot |-> FALSE] :
        it \in UNION {[1..n -> {[external_id |-> e, title |-> "b"] : e \in ExtIds}]
                        : n \in 1..MaxBatch}}

\* The tables the race can start from.
RaceStores == {{}, {[id |-> 1, external_id |-> "1", title |-> "a"]}}

RaceInit ==
    /\ store \in RaceStores
    /\ nextId = Cardinality(store) + 1
    /\ uniqueEnforced \in BOOLEAN
    /\ sess = [s \in Sessions |-> CleanSession]
    /\ last = [op |-> "init"]
    /\ pc = [s \in Sessions |-> "idle"]
    /\ batch = [s \in Sessions |-> [items |-> <<>>, oneShot |-> FALSE]]
    /\ existing = [s \in Sessions |-> <<>>]
    /\ acc = [s \in Sessions |-> StartLoop(CleanSession)]
    /\ table = {}

\* The call is made.
RaceCall(s, payloads) ==
    /\ pc[s] = "idle"
    /\ batch' = [batch EXCEPT ![s] = payloads]
    /\ pc' = [pc EXCEPT ![s] = "query"]
    /\ UNCHANGED <<store, nextId, uniqueEnforced, sess, last, existing, acc, table>>

\* Lines 70-79: the external_ids and the existence query.
RaceQuery(s) ==
    /\ pc[s] = "query"
    /\ \E ex \in ExistingVacancies(sess[s], store, ExternalIds(batch[s])) :
            existing' = [existing EXCEPT ![s] = ex]
    /\ pc' = [pc EXCEPT ![s] = "loop"]
    /\ UNCHANGED <<store, nextId, uniqueEnforced, sess, last, batch, acc, table>>

\* Lines 81-93: the loop, which has no await in it.
RaceLoop(s) ==
    /\ pc[s] = "loop"
    /\ LET st == UpsertLoop(StartLoop(sess[s]), existing[s], Traverse(batch[s], 2))
       IN /\ acc' = [acc EXCEPT ![s] = st]
          /\ sess' = [sess EXCEPT ![s] = st.sess]
          /\ pc' = [pc EXCEPT ![s] = IF st.err = "none" THEN "commit" ELSE "done"]
    /\ UNCHANGED <<store, nextId, uniqueEnforced, last, batch, existing, table>>

\* Line 95: the commit.
RaceCommit(s, connFail) ==
    /\ pc[s] = "commit"
    /\ LET c == Commit(store, nextId, sess[s], {}, uniqueEnforced, connFail)
       IN /\ store' = c.rows
          /\ nextId' = c.nextId
          /\ last' = [op |-> "upsert", s |-> s, ok |-> c.ok,
                      err |-> IF c.ok THEN "none" ELSE "commit"]
    /\ sess' = [sess EXCEPT ![s] = CleanSession]
    /\ pc' = [pc EXCEPT ![s] = "done"]
    /\ UNCHANGED <<uniqueEnforced, batch, existing, acc, table>>

RaceNext ==
    \E s \in Sessions :
        \/ \E p \in RaceBatches : RaceCall(s, p)
        \/ RaceQuery(s)
        \/ RaceLoop(s)
        \/ \E f \in BOOLEAN : RaceCommit(s, f)

SpecRace == RaceInit /\ [][RaceNext]_vars

-----------------------------------------------------------------------------
(* list_vacancies over the rows of `table`.  A str is a sequence of        *)
(* one-character strings; NoStr is the argument None.                      *)

Alphabet == {"a", "A", "_", "%"}

Strs == UNION {[1..n -> Alphabet] : n \in 0..MaxStrLen}

NoStr == <<"None">>

\* Case folding, as ILIKE compares.
Lower(str) == [i \in DOMAIN str |-> IF str[i] = "A" THEN "a" ELSE str[i]]

\* SQL LIKE: % matches any run of characters, _ matches any one character,
\* every other character matches itself.
RECURSIVE Like(_, _)
Like(str, pattern) ==
    IF pattern = <<>> THEN str = <<>>
    ELSE IF Head(pattern) = "%"
         THEN Like(str, Tail(pattern)) \/ (str # <<>> /\ Like(Tail(str), pattern))
         ELSE /\ str # <<>>
              /\ Head(pattern) = "_" \/ Head(pattern) = Head(str)
              /\ Like(Tail(str), Tail(pattern))

\* column.ilike(f"%{value}%")
ilike(column, value) == Like(Lower(column), Lower(<<"%">> \o value \o <<"%">>))

\* order_by(Vacancy.published_at.desc())
RECURSIVE OrderByDesc(_)
OrderByDesc(rows) ==
    IF rows = {} THEN <<>>
    ELSE LET top == CHOOSE r \in rows : \A q \in rows : q.published_at <= r.published_at
         IN <<top>> \o OrderByDesc(rows \ {top})

\* `if value:` of an Optional[str]: None and "" add no WHERE clause.
Given(value) == value # NoStr /\ value # <<>>

list_vacancies(rows, timetable_mode_name, city_name) ==
    OrderByDesc({r \in rows :
        /\ Given(timetable_mode_name) => ilike(r.timetable_mode_name, timetable_mode_name)
        /\ Given(city_name) => ilike(r.city_name, city_name)})

ModeNames == {<<"a">>, <<"A", "_">>}
ModeFilters == {NoStr, <<>>, <<"a">>, <<"_">>}

ListInit ==
    /\ \E c1 \in Strs \ {<<>>}, m1 \in ModeNames, p1 \in {1, 3}, two \in BOOLEAN :
        table = {[id |-> 1, timetable_mode_name |-> m1, city_name |-> c1,
                  published_at |-> p1]}
                \cup (IF two THEN {[id |-> 2, timetable_mode_name |-> <<"a">>,
                                    city_name |-> <<"a", "A">>, published_at |-> 2]}
                             ELSE {})
    /\ store = {}
    /\ nextId = 1
    /\ uniqueEnforced = FALSE
    /\ sess = [s \in Sessions |-> CleanSession]
    /\ last = [op |-> "init"]
    /\ pc = [s \in Sessions |-> "idle"]
    /\ batch = [s \in Sessions |-> [items |-> <<>>, oneShot |-> FALSE]]
    /\ existing = [s \in Sessions |-> <<>>]
    /\ acc = [s \in Sessions |-> StartLoop(CleanSession)]

List(timetable_mode_name, city_name) ==
    /\ last' = [op |-> "list", timetable_mode_name |-> timetable_mode_name,
                city_name |-> city_name,
                result |-> list_vacancies(table, timetable_mode_name, city_name)]
    /\ UNCHANGED <<store, nextId, uniqueEnforced, sess, pc, batch, existing, acc, table>>

ListNext == \E m \in ModeFilters, c \in Strs \cup {NoStr} : List(m, c)

SpecList == ListInit /\ [][ListNext]_vars

-----------------------------------------------------------------------------
(* Claims about the sequential operations, checked under Spec.             *)
(* Between two calls a session holds staged writes only when an upsert     *)
(* call raised inside its loop: every other path ends in a commit or in    *)
(* the rollback of a failed commit.                                        *)

\* C1: update(existing, data) is a partial overwrite: after the call every
\* field the caller set has the payload's value and every field the caller
\* did not set has the value it had before the call.
C1_PartialOverwrite ==
    (last.op = "update" /\ last.ok) =>
        \A f \in Fields :
            last.result[f] = IF f \in DOMAIN last.data THEN last.data[f]
                                                       ELSE last.old[f]

\* C2: upsert_batch is all-or-nothing: the writes of an upsert call that
\* failed are never committed, also not by a later call that commits on the
\* same session; so no successful commit flushes writes that a failed call
\* left staged in the session.
C2_AllOrNothing ==
    (last.op \in {"create", "update", "delete", "upsert"} /\ last.ok) =>
        last.staged = 0

\* C3: an upsert_batch call that starts from a table in which every non-null
\* external_id identifies at most one Vacancy leaves such a table.
C3_UpsertKeepsUnique ==
    [][(last'.op = "upsert" /\ UniqueExt(store)) => UniqueExt(store')]_vars

\* C4: a successful upsert_batch overwrites, for each payload whose
\* external_id is that of a row present before the call, that row's fields
\* with the payload's and inserts nothing for it; it inserts one new row
\* built from each other payload; and it returns the number of new rows.
\* Stated for a list of payloads, a session with nothing staged and a table
\* whose non-null external_ids are unique.
C4_UpsertPartition ==
    (/\ last.op = "upsert" /\ last.ok
     /\ ~last.payloads.oneShot /\ last.staged = 0 /\ UniqueExt(last.before)) =>
        LET items == last.payloads.items
            Ext(i) == py_get(items[i], "external_id")
            HasRow(e) == e # None /\ \E r \in last.before : r.external_id = e
            newIdx == {i \in DOMAIN items : ~HasRow(Ext(i))}
            newRows == {r \in store : r.id \notin Ids(last.before)}
        IN /\ \A i \in DOMAIN items :
                (HasRow(Ext(i)) /\ \A j \in DOMAIN items : j > i => Ext(j) # Ext(i))
                    => \E r0 \in last.before, r \in store :
                          /\ r0.external_id = Ext(i)
                          /\ r.id = r0.id
                          /\ \A f \in DOMAIN items[i] : r[f] = items[i][f]
           /\ Cardinality(newRows) = Cardinality(newIdx)
           /\ \A r \in newRows :
                \E i \in newIdx : \A f \in Fields : r[f] = py_get(items[i], f)
           /\ last.created = Cardinality(newRows)

\* C5: a payload without a usable external_id (key missing, None, or a
\* falsy value) does not make the call fail: the call goes on to its commit,
\* inserts the payload as a new row and counts it.  Stated for a list of
\* payloads and a call whose commit did not fail.
C5_UnusableIsNew ==
    (last.op = "upsert" /\ last.err # "commit" /\ ~last.payloads.oneShot) =>
        LET items == last.payloads.items
            unusable == {i \in DOMAIN items :
                            ~Truthy(py_get(items[i], "external_id"))}
            newRows == {r \in store : r.id \notin Ids(last.before)}
        IN unusable # {} =>
            /\ last.ok
            /\ last.created >= Cardinality(unusable)
            /\ \A i \in unusable :
                 \E r \in newRows : \A f \in Fields : r[f] = py_get(items[i], f)

\* C7: in every table the operations can reach, get_by_external_id(e)
\* returns a Vacancy whose external_id is e when one exists and the absence
\* marker when none exists; it never raises.
C7_GetByExternalIdTotal ==
    last.op = "get_by_external_id" =>
        LET match == {r \in store : r.external_id = last.external_id}
        IN /\ last.result.kind # "MultipleResultsFound"
           /\ match = {} <=> last.result.kind = "none"
           /\ last.result.kind = "row" =>
                /\ last.result.row.external_id = last.external_id
                /\ last.result.row.id \in Ids(match)

\* C9: a successful create(data) commits exactly one new row, with a fresh
\* id, leaves every earlier row unchanged, and get(new.id) right afterwards
\* returns a record equal to data in every payload field.
C9_CreateGetRoundTrip ==
    (last.op = "create" /\ last.ok) =>
        LET g == get_vacancy(sess[last.s], store, last.result.id)
        IN /\ store = last.before \cup {last.result}
           /\ last.result.id \notin Ids(last.before)
           /\ g.kind = "row"
           /\ \A f \in Fields : g.row[f] = last.data[f]

\* C10: a successful upsert_batch handles every payload the iterable yields
\* exactly once: rows updated plus rows inserted equals the number of
\* payloads.
C10_EveryPayloadOnce ==
    (last.op = "upsert" /\ last.ok) =>
        last.updated + last.created = Len(last.payloads.items)

-----------------------------------------------------------------------------
(* The claim about concurrent calls, checked under SpecRace.               *)

\* C8: two concurrent upsert_batch calls can both run their existence query
\* before either commits and both then attempt to insert a row for the same
\* unseen external_id: no step of a call waits for the other call, and a
\* call that has reached its commit holds one pending insert for every
\* payload whose external_id its own query did not find, whatever the other
\* call has staged or committed in the meantime.
C8_RaceNotResolved ==
    \A s \in Sessions :
        /\ pc[s] = "query" => ENABLED RaceQuery(s)
        /\ pc[s] = "loop" => ENABLED RaceLoop(s)
        /\ pc[s] = "commit" =>
            \A e \in ExtIds :
                e \notin DOMAIN existing[s] =>
                    Cardinality({k \in DOMAIN sess[s].pending :
                                    sess[s].pending[k]["external_id"] = e})
                      = Cardinality({i \in DOMAIN batch[s].items :
                                        batch[s].items[i]["external_id"] = e})

\* Both calls have run their query and their loop, neither has committed,
\* and both hold a pending insert for the same external_id that no row has.
C8_Witness ==
    /\ pc[1] = "commit" /\ pc[2] = "commit"
    /\ \E e \in ExtIds :
        /\ \A r \in store : r.external_id # e
        /\ \A s \in Sessions :
            \E k \in DOMAIN sess[s].pending : sess[s].pending[k]["external_id"] = e

-----------------------------------------------------------------------------
(* The claim about list, checked under SpecList.                           *)

\* C6: list returns exactly the rows for which every provided filter string
\* occurs, compared case-insensitively, as a contiguous substring of the
\* corresponding field; an unset filter constrains nothing; this for every
\* filter string, also one containing '%' or '_'.
C6_ListIsSubstringMatch ==
    last.op = "list" =>
        LET Occurs(f, str) ==
                \E i \in 0..Len(str) :
                    /\ i + Len(f) <= Len(str)
                    /\ \A k \in 1..Len(f) : Lower(f)[k] = Lower(str)[i + k]
            Holds(f, str) == f = NoStr \/ Occurs(f, str)
        IN {last.result[i] : i \in DOMAIN last.result}
             = {r \in table :
                    /\ Holds(last.timetable_mode_name, r.timetable_mode_name)
                    /\ Holds(last.city_name, r.city_name)}

====
